---- MODULE Spec2Model ----
(***************************************************************************)
(* Request-instrumentation pipeline of the observability demo API:         *)
(* PrometheusMiddleware.dispatch (app/metrics.py) run by several in-flight *)
(* requests over the three process-wide metrics, and the structlog         *)
(* processor add_trace_context (app/main.py).                              *)
(*                                                                         *)
(* Each request is a coroutine; its position in dispatch is pc[r].  The    *)
(* statements of dispatch are separate steps, so every interleaving of the *)
(* requests' metric updates is explored.                                   *)
(*                                                                         *)
(* Spec       the requests with the prometheus_client calls succeeding,    *)
(*            as they do for the label names the code passes.              *)
(* SpecClock  GET /db requests with time.perf_counter() advancing.          *)
(* SpecFault  Spec with metric calls that may raise.                       *)
(* SpecLog    log emissions under per-task trace contexts.                 *)
(* SpecPaths  GET requests to URLs that match no registered route.         *)
(* SpecScrape one scrape of the registry beside GET /work requests.        *)
(***************************************************************************)
EXTENDS Integers, Sequences, FiniteSets, TLC

\* ------------------------------------------------------------- bounds ----
NReq == 2
MaxClock == 1

Reqs == 1..NReq

\* ------------------------------------------------------------- inputs ----
Methods == {"GET", "POST"}
ScrapePath == "/metrics"
Paths == {"/work", "/healthz", ScrapePath}

\* the routes main.py registers
RegisteredRoutes == {"/healthz", "/metrics", "/work", "/downstream", "/db"}

NoStatus == -1
DefaultStatus == 500
StatusCodes == {200, 502}
\* what call_next can return: a response object, with or without status_code
Responses == [status_code : StatusCodes \cup {NoStatus}, body : {"payload"}]
\* what call_next can raise
Faults == {"RuntimeError"}
\* identifiers a span context can carry (0 is the invalid identifier)
TraceIds == {0, 1, 43981}
SpanIds == {0, 255}
\* the event dicts structlog builds for the two log calls of main.py
EventDicts ==
    { [event |-> "work_done", cpu_ms |-> 100, mem_mb |-> 0],
      [event |-> "downstream_error", error |-> "timeout"] }
Cancelled == "CancelledError"
MetricError == "MetricError"

NoOutcome == [kind |-> "none"]
Returned(resp) == [kind |-> "response", val |-> resp]
Raised(f) == [kind |-> "raise", val |-> f]

VARIABLES
    pc,          \* position of each request's dispatch coroutine
    method,      \* request.method
    path,        \* request.url.path
    start,       \* local start = time.perf_counter()
    now,         \* the monotonic clock time.perf_counter()
    outcome,     \* how call_next resolved for the request
    pending,     \* the return value / exception in flight through finally
    result,      \* what dispatch handed to its caller
    REQUEST_COUNT,    \* Counter: (method, path, status_code) -> value
    REQUEST_LATENCY,  \* Histogram: (method, path) -> [count, sum]
    INPROGRESS,       \* Gauge
    gaugeIncs,   \* number of INPROGRESS.inc() calls performed
    gaugeDecs,   \* number of INPROGRESS.dec() calls performed
    counted,     \* per request: REQUEST_COUNT increments it performed
    observed,    \* per request: REQUEST_LATENCY observations it performed
    failedCall,  \* per request: the metric calls that raised for it
    invokedAt,   \* per request: the clock when call_next was invoked
    resolvedAt,  \* per request: the clock when call_next resolved
    elapsed,     \* per request: the value it passed to observe()
    scrapePc,    \* position of the scrape handler metrics()
    snapshot,    \* the samples generate_latest has read so far
    atStart,     \* the metrics and the update counts when the scrape began
    current_span,\* per task context: the active span's SpanContext
    record       \* the last log record handed to the JSON renderer

reqVars == <<pc, method, path, start, now, outcome, pending, result>>
metricVars == <<REQUEST_COUNT, REQUEST_LATENCY, INPROGRESS>>
ghostVars == <<gaugeIncs, gaugeDecs, counted, observed>>
logVars == <<current_span, record>>
timeVars == <<invokedAt, resolvedAt, elapsed>>
scrapeVars == <<scrapePc, snapshot, atStart>>
auxVars == <<failedCall, logVars, timeVars, scrapeVars>>
vars == <<reqVars, metricVars, ghostVars, auxVars>>

\* ----------------------------------------------------- pure functions ----
Digit(d) ==
    CASE d = 0 -> "0" [] d = 1 -> "1" [] d = 2 -> "2" [] d = 3 -> "3"
      [] d = 4 -> "4" [] d = 5 -> "5" [] d = 6 -> "6" [] d = 7 -> "7"
      [] d = 8 -> "8" [] d = 9 -> "9"

RECURSIVE str(_)
\* str(status) for a non-negative int
str(n) == IF n < 10 THEN Digit(n) ELSE str(n \div 10) \o Digit(n % 10)

\* every error status labelled with the default
getattr_status_ErrorsAsDefault(response) ==
    IF response.status_code = NoStatus \/ response.status_code >= 400
    THEN DefaultStatus
    ELSE response.status_code

\* getattr(response, "status_code", 500)
getattr_status(response) ==
    IF response.status_code = NoStatus THEN DefaultStatus
    ELSE response.status_code

\* metric.labels(...): the child series, created at 0 on first use
labels(metric, key, zero) ==
    IF key \in DOMAIN metric THEN metric ELSE metric @@ (key :> zero)

\* a lost update: the increment written over a stale read of the series
CounterInc_LostUpdate(metric, key) ==
    [labels(metric, key, 0) EXCEPT ![key] = 1]

\* the increment applied to every series of the same path and status
CounterInc_AllMethods(metric, key) ==
    [k \in DOMAIN labels(metric, key, 0) |->
        IF k[2] = key[2] /\ k[3] = key[3]
        THEN labels(metric, key, 0)[k] + 1
        ELSE labels(metric, key, 0)[k]]

\* Counter child .inc()
CounterInc(metric, key) ==
    [labels(metric, key, 0) EXCEPT ![key] = @ + 1]

\* one step of the clock, in milliseconds
TickMs == 25
\* the default bucket boundaries of a prometheus_client Histogram (the le
\* labels .005, .01, .025, ..., 10 seconds), in milliseconds
BucketBounds ==
    {5, 10, 25, 50, 75, 100, 250, 500, 750, 1000, 2500, 5000, 7500, 10000}

\* a histogram series as it is exposed: the cumulative count of each
\* boundary, the +Inf bucket, _count and _sum (in clock steps)
EmptyHistogram ==
    [count |-> 0, sum |-> 0, bucket |-> [b \in BucketBounds |-> 0], inf |-> 0]

\* an observation recorded twice
HistogramObserve_Twice(metric, key, duration) ==
    [labels(metric, key, EmptyHistogram) EXCEPT
        ![key] = [count |-> @.count + 2,
                  sum |-> @.sum + 2 * duration,
                  bucket |-> [b \in BucketBounds |->
                      IF duration * TickMs <= b THEN @.bucket[b] + 2
                      ELSE @.bucket[b]],
                  inf |-> @.inf + 2]]

\* an observation counted in its own bucket only, not in the larger ones
HistogramObserve_OwnBucket(metric, key, duration) ==
    [labels(metric, key, EmptyHistogram) EXCEPT
        ![key] = [count |-> @.count + 1,
                  sum |-> @.sum + duration,
                  bucket |-> [b \in BucketBounds |->
                      IF /\ duration * TickMs <= b
                         /\ \A c \in BucketBounds :
                               duration * TickMs <= c => b <= c
                      THEN @.bucket[b] + 1
                      ELSE @.bucket[b]],
                  inf |-> @.inf + 1]]

\* Histogram child .observe(duration): counted in every bucket whose
\* boundary is >= duration and in +Inf; _count + 1; _sum + duration
HistogramObserve(metric, key, duration) ==
    [labels(metric, key, EmptyHistogram) EXCEPT
        ![key] = [count |-> @.count + 1,
                  sum |-> @.sum + duration,
                  bucket |-> [b \in BucketBounds |->
                      IF duration * TickMs <= b THEN @.bucket[b] + 1
                      ELSE @.bucket[b]],
                  inf |-> @.inf + 1]]

GaugeInc(g) == g + 1
\* a decrement applied twice
GaugeDec_Twice(g) == g - 2

GaugeDec(g) == g - 1

\* one lowercase hexadecimal digit
HexDigit(d) ==
    CASE d = 0 -> "0" [] d = 1 -> "1" [] d = 2 -> "2" [] d = 3 -> "3"
      [] d = 4 -> "4" [] d = 5 -> "5" [] d = 6 -> "6" [] d = 7 -> "7"
      [] d = 8 -> "8" [] d = 9 -> "9" [] d = 10 -> "a" [] d = 11 -> "b"
      [] d = 12 -> "c" [] d = 13 -> "d" [] d = 14 -> "e" [] d = 15 -> "f"

RECURSIVE hex(_)
\* the hexadecimal digits of n, most significant first, as a sequence of
\* characters
hex(n) == IF n < 16 THEN <<HexDigit(n)>>
          ELSE hex(n \div 16) \o <<HexDigit(n % 16)>>

\* format(n, "0<width>x"): hex(n) padded on the left with zeros to width
format_x(n, width) ==
    LET h == hex(n)
    IN IF Len(h) >= width THEN h
       ELSE [i \in 1..(width - Len(h)) |-> "0"] \o h

TraceIdWidth == 32
SpanIdWidth == 16

\* SpanContext of the opentelemetry API: valid iff both identifiers are
\* non-zero
SpanContext(tid, sid) ==
    [trace_id |-> tid, span_id |-> sid, is_valid |-> tid # 0 /\ sid # 0]

\* the processor without the validity test
add_trace_context_Always(ctx, event_dict) ==
    ("trace_id" :> format_x(ctx.trace_id, TraceIdWidth))
        @@ ("span_id" :> format_x(ctx.span_id, SpanIdWidth))
        @@ event_dict

\* add_trace_context: ctx is trace.get_current_span().get_span_context();
\* an assignment to event_dict[k] replaces a value already under k
add_trace_context(ctx, event_dict) ==
    IF ctx.is_valid
    THEN ("trace_id" :> format_x(ctx.trace_id, TraceIdWidth))
            @@ ("span_id" :> format_x(ctx.span_id, SpanIdWidth))
            @@ event_dict
    ELSE event_dict

\* ---------------------------------------------------------------- init ----
\* the samples a scrape reports: one per counter series, _count and _sum per
\* histogram series, and the gauge
SamplesOf(counter, histogram) ==
    {[metric |-> "http_requests_total", labels |-> k] : k \in DOMAIN counter}
    \cup {[metric |-> "http_request_duration_seconds_count", labels |-> k] :
             k \in DOMAIN histogram}
    \cup {[metric |-> "http_request_duration_seconds_sum", labels |-> k] :
             k \in DOMAIN histogram}
    \cup {[metric |-> "inprogress_requests", labels |-> <<>>]}

\* the value of one sample in the given metrics
SampleValue(s, counter, histogram, gauge) ==
    CASE s.metric = "http_requests_total" -> counter[s.labels]
      [] s.metric = "http_request_duration_seconds_count" -> histogram[s.labels].count
      [] s.metric = "http_request_duration_seconds_sum" -> histogram[s.labels].sum
      [] s.metric = "inprogress_requests" -> gauge

NotStarted == [counter |-> <<>>, histogram |-> <<>>, gauge |-> 0,
               incs |-> 0, decs |-> 0]

\* INVALID_SPAN: what get_current_span() returns when no span is active
NoSpan == SpanContext(0, 0)
NoRecord == [req |-> 0]

Init ==
    /\ pc = [r \in Reqs |-> "idle"]
    /\ method = [r \in Reqs |-> "GET"]
    /\ path = [r \in Reqs |-> "/work"]
    /\ start = [r \in Reqs |-> 0]
    /\ now = 0
    /\ outcome = [r \in Reqs |-> NoOutcome]
    /\ pending = [r \in Reqs |-> NoOutcome]
    /\ result = [r \in Reqs |-> NoOutcome]
    /\ REQUEST_COUNT = <<>>
    /\ REQUEST_LATENCY = <<>>
    /\ INPROGRESS = 0
    /\ gaugeIncs = 0
    /\ gaugeDecs = 0
    /\ counted = [r \in Reqs |-> 0]
    /\ observed = [r \in Reqs |-> 0]
    /\ failedCall = [r \in Reqs |-> {}]
    /\ invokedAt = [r \in Reqs |-> 0]
    /\ resolvedAt = [r \in Reqs |-> 0]
    /\ elapsed = [r \in Reqs |-> 0]
    /\ scrapePc = "idle"
    /\ snapshot = <<>>
    /\ atStart = NotStarted
    /\ current_span = [r \in Reqs |-> NoSpan]
    /\ record = NoRecord

\* ------------------------------------------------------------- actions ----
\* time.perf_counter() advances
Tick ==
    /\ now < MaxClock
    /\ now' = now + 1
    /\ UNCHANGED <<pc, method, path, start, outcome, pending, result>>
    /\ UNCHANGED <<metricVars, ghostVars, auxVars>>

\* the scrape path instrumented like any other path
DispatchScrape_Measured(r, m) ==
    /\ pc[r] = "idle"
    /\ \A q \in Reqs : q < r => pc[q] # "idle"
    /\ method' = [method EXCEPT ![r] = m]
    /\ path' = [path EXCEPT ![r] = ScrapePath]
    /\ start' = [start EXCEPT ![r] = now]
    /\ INPROGRESS' = INPROGRESS + 1
    /\ gaugeIncs' = gaugeIncs + 1
    /\ pc' = [pc EXCEPT ![r] = "called"]
    /\ UNCHANGED <<now, outcome, pending, result>>
    /\ UNCHANGED <<REQUEST_COUNT, REQUEST_LATENCY, gaugeDecs, counted, observed>>
    /\ invokedAt' = [invokedAt EXCEPT ![r] = now]
    /\ UNCHANGED <<failedCall, logVars, scrapeVars, resolvedAt, elapsed>>

\* dispatch, lines 21-25: the scrape path goes straight to call_next
DispatchScrape(r, m) ==
    /\ pc[r] = "idle"
    /\ \A q \in Reqs : q < r => pc[q] # "idle"
    /\ method' = [method EXCEPT ![r] = m]
    /\ path' = [path EXCEPT ![r] = ScrapePath]
    /\ pc' = [pc EXCEPT ![r] = "bypass"]
    /\ UNCHANGED <<start, now, outcome, pending, result>>
    /\ UNCHANGED <<metricVars, ghostVars, auxVars>>

\* the health endpoint bypassed like the scrape endpoint
DispatchEnter_HealthzBypass(r, m, p) ==
    /\ pc[r] = "idle"
    /\ \A q \in Reqs : q < r => pc[q] # "idle"
    /\ p # ScrapePath
    /\ method' = [method EXCEPT ![r] = m]
    /\ path' = [path EXCEPT ![r] = p]
    /\ IF p = "/healthz"
       THEN /\ pc' = [pc EXCEPT ![r] = "bypass"]
            /\ UNCHANGED <<start, INPROGRESS, gaugeIncs>>
       ELSE /\ start' = [start EXCEPT ![r] = now]
            /\ INPROGRESS' = GaugeInc(INPROGRESS)
            /\ gaugeIncs' = gaugeIncs + 1
            /\ pc' = [pc EXCEPT ![r] = "called"]
    /\ UNCHANGED <<now, outcome, pending, result>>
    /\ UNCHANGED <<REQUEST_COUNT, REQUEST_LATENCY, gaugeDecs, counted, observed>>
    /\ invokedAt' = [invokedAt EXCEPT ![r] = now]
    /\ UNCHANGED <<failedCall, logVars, scrapeVars, resolvedAt, elapsed>>

\* a lock taken at entry and held across the downstream call
DispatchEnter_Serialized(r, m, p) ==
    /\ pc[r] = "idle"
    /\ \A q \in Reqs : q < r => pc[q] # "idle"
    /\ \A q \in Reqs : pc[q] \in {"idle", "bypass", "done"}
    /\ p # ScrapePath
    /\ method' = [method EXCEPT ![r] = m]
    /\ path' = [path EXCEPT ![r] = p]
    /\ start' = [start EXCEPT ![r] = now]
    /\ INPROGRESS' = GaugeInc(INPROGRESS)
    /\ gaugeIncs' = gaugeIncs + 1
    /\ pc' = [pc EXCEPT ![r] = "called"]
    /\ UNCHANGED <<now, outcome, pending, result>>
    /\ UNCHANGED <<REQUEST_COUNT, REQUEST_LATENCY, gaugeDecs, counted, observed>>
    /\ invokedAt' = [invokedAt EXCEPT ![r] = now]
    /\ UNCHANGED <<failedCall, logVars, scrapeVars, resolvedAt, elapsed>>

\* dispatch, lines 21-30: start the timer, INPROGRESS.inc(), await call_next
DispatchEnter(r, m, p) ==
    /\ pc[r] = "idle"
    /\ \A q \in Reqs : q < r => pc[q] # "idle"
    /\ p # ScrapePath
    /\ method' = [method EXCEPT ![r] = m]
    /\ path' = [path EXCEPT ![r] = p]
    /\ start' = [start EXCEPT ![r] = now]
    /\ INPROGRESS' = GaugeInc(INPROGRESS)
    /\ gaugeIncs' = gaugeIncs + 1
    /\ pc' = [pc EXCEPT ![r] = "called"]
    /\ UNCHANGED <<now, outcome, pending, result>>
    /\ UNCHANGED <<REQUEST_COUNT, REQUEST_LATENCY, gaugeDecs, counted, observed>>
    /\ invokedAt' = [invokedAt EXCEPT ![r] = now]
    /\ UNCHANGED <<failedCall, logVars, scrapeVars, resolvedAt, elapsed>>

\* line 25: the awaited call_next of a scrape request resolves; its outcome
\* is the outcome of dispatch
BypassResolve(r, o) ==
    /\ pc[r] = "bypass"
    /\ outcome' = [outcome EXCEPT ![r] = o]
    /\ result' = [result EXCEPT ![r] = o]
    /\ pc' = [pc EXCEPT ![r] = "done"]
    /\ UNCHANGED <<method, path, start, now, pending>>
    /\ UNCHANGED <<metricVars, ghostVars, auxVars>>

\* line 30: call_next returns a response
CallNextReturn(r, resp) ==
    /\ pc[r] = "called"
    /\ outcome' = [outcome EXCEPT ![r] = Returned(resp)]
    /\ pc' = [pc EXCEPT ![r] = "resolved"]
    /\ UNCHANGED <<method, path, start, now, pending, result>>
    /\ resolvedAt' = [resolvedAt EXCEPT ![r] = now]
    /\ UNCHANGED <<metricVars, ghostVars, failedCall, logVars, scrapeVars, invokedAt, elapsed>>

\* no finally block: an exception of call_next leaves dispatch at once
CallNextRaise_NoFinally(r, f) ==
    /\ pc[r] = "called"
    /\ outcome' = [outcome EXCEPT ![r] = Raised(f)]
    /\ result' = [result EXCEPT ![r] = Raised(f)]
    /\ pc' = [pc EXCEPT ![r] = "done"]
    /\ UNCHANGED <<method, path, start, now, pending>>
    /\ resolvedAt' = [resolvedAt EXCEPT ![r] = now]
    /\ UNCHANGED <<metricVars, ghostVars, failedCall, logVars, scrapeVars, invokedAt, elapsed>>

\* an except clause that counts the fault under the default status
CallNextRaise_CountedAsDefault(r, f) ==
    /\ pc[r] = "called"
    /\ outcome' = [outcome EXCEPT ![r] = Raised(f)]
    /\ pending' = [pending EXCEPT ![r] = Raised(f)]
    /\ REQUEST_COUNT' =
          CounterInc(REQUEST_COUNT, <<method[r], path[r], str(DefaultStatus)>>)
    /\ counted' = [counted EXCEPT ![r] = @ + 1]
    /\ pc' = [pc EXCEPT ![r] = "finally"]
    /\ UNCHANGED <<method, path, start, now, result>>
    /\ UNCHANGED <<REQUEST_LATENCY, INPROGRESS, gaugeIncs, gaugeDecs, observed>>
    /\ resolvedAt' = [resolvedAt EXCEPT ![r] = now]
    /\ UNCHANGED <<failedCall, logVars, scrapeVars, invokedAt, elapsed>>

\* line 30: call_next raises, or the task is cancelled while suspended in
\* it; control goes to the finally block with the exception in flight
CallNextRaise(r, f) ==
    /\ pc[r] = "called"
    /\ outcome' = [outcome EXCEPT ![r] = Raised(f)]
    /\ pending' = [pending EXCEPT ![r] = Raised(f)]
    /\ pc' = [pc EXCEPT ![r] = "finally"]
    /\ UNCHANGED <<method, path, start, now, result>>
    /\ resolvedAt' = [resolvedAt EXCEPT ![r] = now]
    /\ UNCHANGED <<metricVars, ghostVars, failedCall, logVars, scrapeVars, invokedAt, elapsed>>

\* the counter increment left out of the path to the finally block
CountRequest_Deferred(r) ==
    /\ pc[r] = "resolved"
    /\ pending' = [pending EXCEPT ![r] = Returned(outcome[r].val)]
    /\ pc' = [pc EXCEPT ![r] = "finally"]
    /\ UNCHANGED <<method, path, start, now, outcome, result>>
    /\ UNCHANGED <<metricVars, ghostVars, auxVars>>

\* lines 31-33: read the status, increment the counter, return response
\* (the return value waits for the finally block)
CountRequest(r) ==
    /\ pc[r] = "resolved"
    /\ LET response == outcome[r].val
           status == getattr_status(response)
       IN /\ REQUEST_COUNT' =
                CounterInc(REQUEST_COUNT, <<method[r], path[r], str(status)>>)
          /\ pending' = [pending EXCEPT ![r] = Returned(response)]
    /\ counted' = [counted EXCEPT ![r] = @ + 1]
    /\ pc' = [pc EXCEPT ![r] = "finally"]
    /\ UNCHANGED <<method, path, start, now, outcome, result>>
    /\ UNCHANGED <<REQUEST_LATENCY, INPROGRESS, gaugeIncs, gaugeDecs, observed>>
    /\ UNCHANGED auxVars

\* the timer restarted when the coroutine resumes: the suspension is left out
ObserveLatency_ActiveOnly(r) ==
    /\ pc[r] = "finally"
    /\ LET duration == now - resolvedAt[r]
       IN /\ REQUEST_LATENCY' =
                HistogramObserve(REQUEST_LATENCY, <<method[r], path[r]>>, duration)
          /\ elapsed' = [elapsed EXCEPT ![r] = duration]
    /\ observed' = [observed EXCEPT ![r] = @ + 1]
    /\ pc' = [pc EXCEPT ![r] = "dec"]
    /\ UNCHANGED <<method, path, start, now, outcome, pending, result>>
    /\ UNCHANGED <<REQUEST_COUNT, INPROGRESS, gaugeIncs, gaugeDecs, counted>>
    /\ UNCHANGED <<failedCall, logVars, scrapeVars, invokedAt, resolvedAt>>

\* lines 35-36: duration = perf_counter() - start; observe it
ObserveLatency(r) ==
    /\ pc[r] = "finally"
    /\ LET duration == now - start[r]
       IN /\ REQUEST_LATENCY' =
                HistogramObserve(REQUEST_LATENCY, <<method[r], path[r]>>, duration)
          /\ elapsed' = [elapsed EXCEPT ![r] = duration]
    /\ observed' = [observed EXCEPT ![r] = @ + 1]
    /\ pc' = [pc EXCEPT ![r] = "dec"]
    /\ UNCHANGED <<method, path, start, now, outcome, pending, result>>
    /\ UNCHANGED <<REQUEST_COUNT, INPROGRESS, gaugeIncs, gaugeDecs, counted>>
    /\ UNCHANGED <<failedCall, logVars, scrapeVars, invokedAt, resolvedAt>>

\* the finally block ends by returning an error response of its own
GaugeRelease_Substitute(r) ==
    /\ pc[r] = "dec"
    /\ INPROGRESS' = GaugeDec(INPROGRESS)
    /\ gaugeDecs' = gaugeDecs + 1
    /\ result' = [result EXCEPT ![r] =
          IF pending[r].kind = "raise"
          THEN Returned([status_code |-> DefaultStatus, body |-> "error"])
          ELSE pending[r]]
    /\ pc' = [pc EXCEPT ![r] = "done"]
    /\ UNCHANGED <<method, path, start, now, outcome, pending>>
    /\ UNCHANGED <<REQUEST_COUNT, REQUEST_LATENCY, gaugeIncs, counted, observed>>
    /\ UNCHANGED auxVars

\* line 37: INPROGRESS.dec(); the finally block ends and the pending
\* return value or exception leaves dispatch
GaugeRelease(r) ==
    /\ pc[r] = "dec"
    /\ INPROGRESS' = GaugeDec(INPROGRESS)
    /\ gaugeDecs' = gaugeDecs + 1
    /\ result' = [result EXCEPT ![r] = pending[r]]
    /\ pc' = [pc EXCEPT ![r] = "done"]
    /\ UNCHANGED <<method, path, start, now, outcome, pending>>
    /\ UNCHANGED <<REQUEST_COUNT, REQUEST_LATENCY, gaugeIncs, counted, observed>>
    /\ UNCHANGED auxVars

Next ==
    \/ \E r \in Reqs, m \in Methods : DispatchScrape(r, m)
    \/ \E r \in Reqs, m \in Methods, p \in Paths : DispatchEnter(r, m, p)
    \/ \E r \in Reqs, resp \in Responses : BypassResolve(r, Returned(resp))
    \/ \E r \in Reqs, f \in Faults \cup {Cancelled} : BypassResolve(r, Raised(f))
    \/ \E r \in Reqs, resp \in Responses : CallNextReturn(r, resp)
    \/ \E r \in Reqs, f \in Faults \cup {Cancelled} : CallNextRaise(r, f)
    \/ \E r \in Reqs : CountRequest(r)
    \/ \E r \in Reqs : ObserveLatency(r)
    \/ \E r \in Reqs : GaugeRelease(r)

Spec == Init /\ [][Next]_vars

\* the requests of SpecClock: GET /db, whose handler suspends in
\* asyncio.sleep and then returns, or is cancelled while suspended
ClockPath == "/db"
ClockResponses == [status_code : {200}, body : {"payload"}]

NextClock ==
    \/ Tick
    \/ \E r \in Reqs : DispatchEnter(r, "GET", ClockPath)
    \/ \E r \in Reqs, resp \in ClockResponses : CallNextReturn(r, resp)
    \/ \E r \in Reqs : CallNextRaise(r, Cancelled)
    \/ \E r \in Reqs : CountRequest(r)
    \/ \E r \in Reqs : ObserveLatency(r)
    \/ \E r \in Reqs : GaugeRelease(r)

SpecClock == Init /\ [][NextClock]_vars

\* the requests of SpecPaths: GET requests to a registered route and to URLs
\* no route matches, which the router answers with 404 inside call_next
RawPaths == {"/work", "/users/1", "/users/2"}
PathResponses == [status_code : {200, 404}, body : {"payload"}]

NextPaths ==
    \/ \E r \in Reqs, p \in RawPaths : DispatchEnter(r, "GET", p)
    \/ \E r \in Reqs, resp \in PathResponses :
          /\ resp.status_code = (IF path[r] \in RegisteredRoutes THEN 200 ELSE 404)
          /\ CallNextReturn(r, resp)
    \/ \E r \in Reqs : CountRequest(r)
    \/ \E r \in Reqs : ObserveLatency(r)
    \/ \E r \in Reqs : GaugeRelease(r)

SpecPaths == Init /\ [][NextPaths]_vars

\* -------------------------------------------------------------- scrape ----
\* metrics() -> metrics_endpoint() -> generate_latest(REGISTRY) begins.  The
\* handler is a plain def, run in a worker thread beside the event loop, so
\* requests keep updating the metrics while it reads them.
ScrapeStart ==
    /\ scrapePc = "idle"
    /\ scrapePc' = "reading"
    /\ snapshot' = <<>>
    /\ atStart' = [counter |-> REQUEST_COUNT, histogram |-> REQUEST_LATENCY,
                   gauge |-> INPROGRESS, incs |-> gaugeIncs, decs |-> gaugeDecs]
    /\ UNCHANGED <<reqVars, metricVars, ghostVars, failedCall, logVars, timeVars>>

\* the cached exposition of process start served for the sample
ScrapeRead_Cached(s) ==
    /\ scrapePc = "reading"
    /\ s \in SamplesOf(REQUEST_COUNT, REQUEST_LATENCY)
    /\ s \notin DOMAIN snapshot
    /\ snapshot' = snapshot @@ (s :> 0)
    /\ UNCHANGED <<scrapePc, atStart>>
    /\ UNCHANGED <<reqVars, metricVars, ghostVars, failedCall, logVars, timeVars>>

\* generate_latest reads one sample: the value of the series at this moment,
\* taken under the lock of that value
ScrapeRead(s) ==
    /\ scrapePc = "reading"
    /\ s \in SamplesOf(REQUEST_COUNT, REQUEST_LATENCY)
    /\ s \notin DOMAIN snapshot
    /\ snapshot' = snapshot @@
          (s :> SampleValue(s, REQUEST_COUNT, REQUEST_LATENCY, INPROGRESS))
    /\ UNCHANGED <<scrapePc, atStart>>
    /\ UNCHANGED <<reqVars, metricVars, ghostVars, failedCall, logVars, timeVars>>

\* generate_latest returns once it has gone through every metric; a series
\* created after its metric was collected may be missing
ScrapeEnd ==
    /\ scrapePc = "reading"
    /\ SamplesOf(atStart.counter, atStart.histogram) \subseteq DOMAIN snapshot
    /\ scrapePc' = "done"
    /\ UNCHANGED <<snapshot, atStart>>
    /\ UNCHANGED <<reqVars, metricVars, ghostVars, failedCall, logVars, timeVars>>

\* the requests of SpecScrape: GET /work returning 200
ScrapeResponses == [status_code : {200}, body : {"payload"}]

NextScrape ==
    \/ ScrapeStart
    \/ \E s \in SamplesOf(REQUEST_COUNT, REQUEST_LATENCY) : ScrapeRead(s)
    \/ ScrapeEnd
    \/ \E r \in Reqs : DispatchEnter(r, "GET", "/work")
    \/ \E r \in Reqs, resp \in ScrapeResponses : CallNextReturn(r, resp)
    \/ \E r \in Reqs : CountRequest(r)
    \/ \E r \in Reqs : ObserveLatency(r)
    \/ \E r \in Reqs : GaugeRelease(r)

SpecScrape == Init /\ [][NextScrape]_vars

\* ------------------------------------------------- failing metric calls ----
\* line 28: INPROGRESS.inc() raises before the try block is entered, so the
\* exception leaves dispatch and call_next is never invoked
GaugeIncFails(r, m, p) ==
    /\ pc[r] = "idle"
    /\ \A q \in Reqs : q < r => pc[q] # "idle"
    /\ p # ScrapePath
    /\ method' = [method EXCEPT ![r] = m]
    /\ path' = [path EXCEPT ![r] = p]
    /\ start' = [start EXCEPT ![r] = now]
    /\ failedCall' = [failedCall EXCEPT ![r] = @ \cup {"gauge_inc"}]
    /\ result' = [result EXCEPT ![r] = Raised(MetricError)]
    /\ pc' = [pc EXCEPT ![r] = "done"]
    /\ UNCHANGED <<now, outcome, pending>>
    /\ UNCHANGED <<metricVars, ghostVars, logVars, timeVars, scrapeVars>>

\* line 32: REQUEST_COUNT.labels(...).inc() raises inside the try block; the
\* exception replaces the return of line 33 and the finally block runs
CountFails(r) ==
    /\ pc[r] = "resolved"
    /\ failedCall' = [failedCall EXCEPT ![r] = @ \cup {"counter"}]
    /\ pending' = [pending EXCEPT ![r] = Raised(MetricError)]
    /\ pc' = [pc EXCEPT ![r] = "finally"]
    /\ UNCHANGED <<method, path, start, now, outcome, result>>
    /\ UNCHANGED <<metricVars, ghostVars, logVars, timeVars, scrapeVars>>

\* line 36: REQUEST_LATENCY.labels(...).observe() raises inside the finally
\* block; the exception replaces the pending outcome and line 37 is not run
ObserveFails(r) ==
    /\ pc[r] = "finally"
    /\ failedCall' = [failedCall EXCEPT ![r] = @ \cup {"histogram"}]
    /\ result' = [result EXCEPT ![r] = Raised(MetricError)]
    /\ pc' = [pc EXCEPT ![r] = "done"]
    /\ UNCHANGED <<method, path, start, now, outcome, pending>>
    /\ UNCHANGED <<metricVars, ghostVars, logVars, timeVars, scrapeVars>>

\* line 37: INPROGRESS.dec() raises; the exception replaces the pending outcome
ReleaseFails(r) ==
    /\ pc[r] = "dec"
    /\ failedCall' = [failedCall EXCEPT ![r] = @ \cup {"gauge_dec"}]
    /\ result' = [result EXCEPT ![r] = Raised(MetricError)]
    /\ pc' = [pc EXCEPT ![r] = "done"]
    /\ UNCHANGED <<method, path, start, now, outcome, pending>>
    /\ UNCHANGED <<metricVars, ghostVars, logVars, timeVars, scrapeVars>>

NextFault ==
    \/ Next
    \/ \E r \in Reqs, m \in Methods, p \in Paths : GaugeIncFails(r, m, p)
    \/ \E r \in Reqs : CountFails(r)
    \/ \E r \in Reqs : ObserveFails(r)
    \/ \E r \in Reqs : ReleaseFails(r)

SpecFault == Init /\ [][NextFault]_vars

\* ---------------------------------------------------------------- logs ----
\* a span becomes the current span of task r's context
\* (FastAPIInstrumentor's server span, tracer.start_as_current_span)
StartSpan(r, tid, sid) ==
    /\ current_span' = [current_span EXCEPT ![r] = SpanContext(tid, sid)]
    /\ UNCHANGED <<reqVars, metricVars, ghostVars, failedCall, timeVars, scrapeVars, record>>

\* the current span of task r ends and its context holds no span
EndSpan(r) ==
    /\ current_span[r] # NoSpan
    /\ current_span' = [current_span EXCEPT ![r] = NoSpan]
    /\ UNCHANGED <<reqVars, metricVars, ghostVars, failedCall, timeVars, scrapeVars, record>>

\* log.info / log.error in task r: the processor chain runs add_trace_context
\* on the caller's event dict and hands the result to the JSON renderer
Emit(r, event_dict) ==
    /\ record' = [req |-> r,
                  ctx |-> current_span[r],
                  input |-> event_dict,
                  output |-> add_trace_context(current_span[r], event_dict)]
    /\ UNCHANGED <<reqVars, metricVars, ghostVars, failedCall, timeVars, scrapeVars, current_span>>

NextLog ==
    \/ \E r \in Reqs, tid \in TraceIds, sid \in SpanIds : StartSpan(r, tid, sid)
    \/ \E r \in Reqs : EndSpan(r)
    \/ \E r \in Reqs, e \in EventDicts : Emit(r, e)

SpecLog == Init /\ [][NextLog]_vars

\* ------------------------------------------------------------- claims ----
Measured(r) == pc[r] # "idle" /\ path[r] # ScrapePath
Settled(r) == pc[r] = "done"
AllSettled == \A r \in Reqs : pc[r] \in {"idle", "done"}
SeriesValue(metric, key) == IF key \in DOMAIN metric THEN metric[key] ELSE 0
LabelStatuses == StatusCodes \cup {DefaultStatus}

\* C1: once every started request has settled (call_next returned, raised or
\* was cancelled), the gauge is back at its baseline 0 and dispatch has
\* performed as many gauge decrements as gauge increments.
C1_GaugeBalanced ==
    AllSettled => INPROGRESS = 0 /\ gaugeDecs = gaugeIncs

\* C1 witness: every request was measured and has settled, one by a raised
\* fault and one by cancellation.
C1_Witness ==
    /\ \A r \in Reqs : Settled(r) /\ Measured(r)
    /\ gaugeIncs = NReq
    /\ \E r \in Reqs : outcome[r] = Raised("RuntimeError")
    /\ \E r \in Reqs : outcome[r] = Raised(Cancelled)

\* C2: every settled request off the scrape path has incremented
\* http_requests_total exactly once; when call_next raised, the increment went
\* to the series with status_code "500".
C2_CountedOnEveryOutcome ==
    \A r \in Reqs :
        Settled(r) /\ Measured(r) =>
            /\ counted[r] = 1
            /\ outcome[r].kind = "raise" =>
                 SeriesValue(REQUEST_COUNT,
                     <<method[r], path[r], str(DefaultStatus)>>) >= 1

\* C3: a request off the scrape path never records two observations, has
\* recorded exactly one once it has settled (whether call_next returned, raised
\* or was cancelled), and the _count of every series is the number of requests
\* of that (method, path) that have observed.
C3_ObservedExactlyOnce ==
    /\ \A r \in Reqs :
          /\ observed[r] <= 1
          /\ Settled(r) /\ Measured(r) => observed[r] = 1
    /\ \A m \in Methods, p \in Paths :
          LET n == Cardinality({r \in Reqs : /\ Measured(r)
                                             /\ method[r] = m /\ path[r] = p
                                             /\ observed[r] = 1})
          IN IF <<m, p>> \in DOMAIN REQUEST_LATENCY
             THEN REQUEST_LATENCY[<<m, p>>].count = n
             ELSE n = 0

\* C3 witness: three terminations of call_next are not possible with two
\* requests, so: a cancelled request and a request whose call_next raised have
\* both settled with one observation each.
C3_Witness ==
    /\ \E r \in Reqs : /\ Settled(r) /\ Measured(r)
                       /\ outcome[r] = Raised(Cancelled) /\ observed[r] = 1
    /\ \E r \in Reqs : /\ Settled(r) /\ Measured(r)
                       /\ outcome[r] = Raised("RuntimeError") /\ observed[r] = 1

\* C4: no series of http_requests_total or http_request_duration_seconds has
\* path="/metrics", and no step of a request to /metrics changes the counter,
\* the histogram or the gauge.
C4_ScrapeBypassed ==
    /\ [](/\ \A k \in DOMAIN REQUEST_COUNT : k[2] # ScrapePath
          /\ \A k \in DOMAIN REQUEST_LATENCY : k[2] # ScrapePath)
    /\ [][\A r \in Reqs :
             pc'[r] # pc[r] /\ path'[r] = ScrapePath => UNCHANGED metricVars]_vars

\* C4 witness: a GET and a POST to /metrics have settled, one with a response
\* and one with a fault.
C4_Witness ==
    /\ \E r \in Reqs : /\ Settled(r) /\ path[r] = ScrapePath
                       /\ method[r] = "GET" /\ outcome[r].kind = "response"
    /\ \E r \in Reqs : /\ Settled(r) /\ path[r] = ScrapePath
                       /\ method[r] = "POST" /\ outcome[r].kind = "raise"

\* C5: once all requests have settled, every series
\* http_requests_total{method, path, status_code} equals the number of
\* requests with that method and path whose call_next returned a response of
\* that status: no increment of concurrent requests is lost.
C5_NoLostIncrement ==
    AllSettled =>
        \A m \in Methods, p \in Paths, s \in LabelStatuses :
            SeriesValue(REQUEST_COUNT, <<m, p, str(s)>>) =
                Cardinality({r \in Reqs :
                    /\ Measured(r) /\ method[r] = m /\ path[r] = p
                    /\ outcome[r].kind = "response"
                    /\ getattr_status(outcome[r].val) = s})

\* C5 witness: all NReq requests were GET /work returning 200, all have
\* settled, and the series holds NReq.
C5_Witness ==
    /\ \A r \in Reqs : /\ Settled(r) /\ method[r] = "GET" /\ path[r] = "/work"
                       /\ outcome[r].kind = "response"
                       /\ outcome[r].val.status_code = 200
    /\ <<"GET", "/work", "200">> \in DOMAIN REQUEST_COUNT
    /\ REQUEST_COUNT[<<"GET", "/work", "200">>] = NReq

\* C6: what dispatch hands to its caller is what call_next produced: the same
\* response when it returned one, the same fault when it raised.
C6_Transparent ==
    \A r \in Reqs : Settled(r) => result[r] = outcome[r]

\* C6 witness: one measured request settled with the response of call_next
\* and one with the fault call_next raised.
C6_Witness ==
    /\ \E r \in Reqs : /\ Settled(r) /\ Measured(r)
                       /\ outcome[r].kind = "response" /\ result[r] = outcome[r]
    /\ \E r \in Reqs : /\ Settled(r) /\ Measured(r)
                       /\ outcome[r].kind = "raise" /\ result[r] = outcome[r]

InFlight(r) == pc[r] \in {"called", "resolved", "finally", "dec"}

\* C7: a metric call that raises inside dispatch never reaches the caller:
\* no request settles with the metric error, and every request whose call_next
\* resolved settles with that response or fault.
C7_MetricFailureSwallowed ==
    \A r \in Reqs :
        Settled(r) =>
            /\ result[r] # Raised(MetricError)
            /\ outcome[r].kind # "none" => result[r] = outcome[r]

\* C8: handling a request to /healthz changes neither http_requests_total nor
\* http_request_duration_seconds nor the inprogress_requests gauge.
C8_HealthzBypassed ==
    [][\A r \in Reqs :
          pc'[r] # pc[r] /\ path'[r] = "/healthz" => UNCHANGED metricVars]_vars

\* C8 as amended: a request to /healthz is instrumented like every other path
\* off the scrape path: while it is in flight it is counted in the gauge, and
\* once it has settled it has recorded one observation in
\* http_request_duration_seconds{method, "/healthz"} and, when call_next
\* returned a response, one increment of
\* http_requests_total{method, "/healthz", status}.
C8_HealthzMeasured ==
    /\ INPROGRESS >= Cardinality({r \in Reqs : InFlight(r) /\ path[r] = "/healthz"})
    /\ \A r \in Reqs :
          Settled(r) /\ path[r] = "/healthz" =>
              /\ observed[r] = 1
              /\ <<method[r], "/healthz">> \in DOMAIN REQUEST_LATENCY
              /\ REQUEST_LATENCY[<<method[r], "/healthz">>].count >= 1
              /\ outcome[r].kind = "response" =>
                    /\ counted[r] = 1
                    /\ SeriesValue(REQUEST_COUNT,
                           <<method[r], "/healthz",
                             str(getattr_status(outcome[r].val))>>) >= 1

\* C8 witness: GET /healthz returned 200 and has settled with its series
\* written.
C8_Witness ==
    /\ \E r \in Reqs : /\ Settled(r) /\ method[r] = "GET" /\ path[r] = "/healthz"
                       /\ outcome[r].kind = "response"
                       /\ outcome[r].val.status_code = 200
    /\ <<"GET", "/healthz", "200">> \in DOMAIN REQUEST_COUNT
    /\ <<"GET", "/healthz">> \in DOMAIN REQUEST_LATENCY

\* C10: the gauge never stays above the number of requests in flight because
\* a counter increment or a latency observation raised: it exceeds that number
\* by at most the requests whose own gauge decrement raised.
C10_DecrementUnconditional ==
    INPROGRESS <= Cardinality({r \in Reqs : InFlight(r)})
                  + Cardinality({r \in Reqs : "gauge_dec" \in failedCall[r]})

HexChars == {HexDigit(d) : d \in 0..15}

RECURSIVE HexValue(_)
\* the number a sequence of hexadecimal characters denotes
HexValue(h) ==
    IF Len(h) = 0 THEN 0
    ELSE 16 * HexValue(SubSeq(h, 1, Len(h) - 1))
         + (CHOOSE d \in 0..15 : HexDigit(d) = h[Len(h)])

IsHexOf(h, n, width) ==
    /\ Len(h) = width
    /\ \A i \in 1..Len(h) : h[i] \in HexChars
    /\ HexValue(h) = n

CorrelationFields == {"trace_id", "span_id"}

\* C9: a record emitted while the emitting task's trace context is valid
\* carries trace_id and span_id, the 32 and 16 digit lowercase hexadecimal forms
\* of that context's identifiers; a record emitted with no active or an invalid
\* context carries neither field; every field of the caller is kept with its
\* value.
C9_LogCorrelation ==
    record # NoRecord =>
        /\ record.ctx.is_valid =>
              /\ DOMAIN record.output = DOMAIN record.input \cup CorrelationFields
              /\ IsHexOf(record.output.trace_id, record.ctx.trace_id, TraceIdWidth)
              /\ IsHexOf(record.output.span_id, record.ctx.span_id, SpanIdWidth)
        /\ ~record.ctx.is_valid => DOMAIN record.output = DOMAIN record.input
        /\ \A k \in DOMAIN record.input : record.output[k] = record.input[k]

\* C9 witness: a record was emitted under a valid context while another task
\* holds a different valid context.
C9_Witness ==
    /\ record # NoRecord
    /\ record.ctx.is_valid
    /\ record.ctx.trace_id = 43981
    /\ \E q \in Reqs : /\ q # record.req
                       /\ current_span[q].is_valid
                       /\ current_span[q].trace_id # record.ctx.trace_id

\* C9 second case reached: a record was emitted under an invalid context.
C9_WitnessInvalid ==
    /\ record # NoRecord
    /\ ~record.ctx.is_valid
    /\ record.ctx.trace_id # 0

\* ------------------------------------------------------ claims C11-C20 ----
Entered(r) == pc[r] # "idle"
OkResponse == [status_code |-> 200, body |-> "payload"]

\* C11: the gauge equals the number of requests off the scrape path that have
\* performed the entry step and not yet the exit step; it is never negative
\* and never above the number of requests started.
C11_GaugeCountsInFlight ==
    /\ INPROGRESS = Cardinality({r \in Reqs : Measured(r) /\ InFlight(r)})
    /\ INPROGRESS >= 0
    /\ INPROGRESS <= Cardinality({r \in Reqs : Entered(r)})

\* C11 witness: every request is in flight at once, at different positions,
\* and the gauge holds NReq.
C11_Witness ==
    /\ \A r \in Reqs : InFlight(r)
    /\ \E r \in Reqs : pc[r] = "called"
    /\ \E r \in Reqs : pc[r] = "dec"
    /\ INPROGRESS = NReq

\* C12: no request waits for another: the next request can always enter, and
\* every request that has entered and not settled can take its next step,
\* whatever the positions of the other requests.
C12_NoBlocking ==
    \A r \in Reqs :
        /\ pc[r] = "idle" /\ (\A q \in Reqs : q < r => pc[q] # "idle")
              => ENABLED DispatchEnter(r, "GET", "/work")
        /\ pc[r] = "bypass" => ENABLED BypassResolve(r, Returned(OkResponse))
        /\ pc[r] = "called" => ENABLED CallNextReturn(r, OkResponse)
        /\ pc[r] = "resolved" => ENABLED CountRequest(r)
        /\ pc[r] = "finally" => ENABLED ObserveLatency(r)
        /\ pc[r] = "dec" => ENABLED GaugeRelease(r)

\* C12 witness: request 1 is still suspended in call_next while a request that
\* entered after it has run its downstream call and all its metric updates.
C12_Witness ==
    /\ pc[1] = "called"
    /\ \E r \in Reqs : /\ r > 1 /\ Settled(r) /\ Measured(r)
                       /\ counted[r] = 1 /\ observed[r] = 1

\* the label the claim expects for a returned response
ExpectedLabel(resp) ==
    CASE resp.status_code = 200 -> "200"
      [] resp.status_code = 502 -> "502"
      [] resp.status_code = NoStatus -> "500"
StatusLabels == {"200", "502", "500"}

CountedWith(r, m, p, l) ==
    /\ Measured(r) /\ counted[r] = 1
    /\ method[r] = m /\ path[r] = p
    /\ outcome[r].kind = "response"
    /\ ExpectedLabel(outcome[r].val) = l

\* C14: every increment of http_requests_total went to the series whose
\* status_code label is the decimal string of the returned response's status
\* (502 included), and to "500" exactly for a response without a status code.
C14_StatusLabel ==
    /\ \A k \in DOMAIN REQUEST_COUNT :
          k[1] \in Methods /\ k[2] \in Paths /\ k[3] \in StatusLabels
    /\ \A k \in DOMAIN REQUEST_COUNT :
          REQUEST_COUNT[k] =
              Cardinality({r \in Reqs : CountedWith(r, k[1], k[2], k[3])})
    /\ \A r \in Reqs :
          Measured(r) /\ counted[r] = 1 =>
              /\ outcome[r].kind = "response"
              /\ <<method[r], path[r], ExpectedLabel(outcome[r].val)>>
                    \in DOMAIN REQUEST_COUNT

\* C14 witness: one response with status 502 and one without a status code
\* have been counted.
C14_Witness ==
    /\ \E r \in Reqs : /\ counted[r] = 1 /\ outcome[r].kind = "response"
                       /\ outcome[r].val.status_code = 502
    /\ \E r \in Reqs : /\ counted[r] = 1 /\ outcome[r].kind = "response"
                       /\ outcome[r].val.status_code = NoStatus
    /\ \E k \in DOMAIN REQUEST_COUNT : k[3] = "502"
    /\ \E k \in DOMAIN REQUEST_COUNT : k[3] = "500"

\* C18: for each request off the scrape path the gauge increment precedes the
\* downstream call, the counter increment follows its return and precedes the
\* observation, and the observation precedes the gauge decrement; so when the
\* gauge is at 0 no request that has entered has an update pending.
C18_StepOrder ==
    /\ \A r \in Reqs :
          Measured(r) =>
              /\ outcome[r].kind = "none" =>
                    pc[r] = "called" /\ counted[r] = 0 /\ observed[r] = 0
              /\ counted[r] = 1 => outcome[r].kind = "response"
              /\ observed[r] = 1 /\ outcome[r].kind = "response" => counted[r] = 1
              /\ pc[r] \in {"dec", "done"} => observed[r] = 1
              /\ InFlight(r) => INPROGRESS >= 1
    /\ INPROGRESS = 0 =>
          \A r \in Reqs :
              Measured(r) =>
                  /\ observed[r] = 1
                  /\ outcome[r].kind = "response" => counted[r] = 1

\* C18 witness: the gauge is back at 0 after every request has gone through
\* all its steps, one of them with a counted response.
C18_Witness ==
    /\ INPROGRESS = 0
    /\ \A r \in Reqs : Measured(r) /\ Settled(r)
    /\ \E r \in Reqs : counted[r] = 1 /\ observed[r] = 1
    /\ \E r \in Reqs : counted[r] = 0 /\ observed[r] = 1

RECURSIVE SumOver(_, _)
\* the sum of f[x] over the finite set S
SumOver(f, S) ==
    IF S = {} THEN 0
    ELSE LET x == CHOOSE y \in S : TRUE
         IN f[x] + SumOver(f, S \ {x})

\* the increments of http_requests_total for (m, p), over all status labels
CounterTotal(m, p) ==
    SumOver(REQUEST_COUNT,
            {k \in DOMAIN REQUEST_COUNT : k[1] = m /\ k[2] = p})
HistogramCount(m, p) ==
    IF <<m, p>> \in DOMAIN REQUEST_LATENCY
    THEN REQUEST_LATENCY[<<m, p>>].count ELSE 0
With(r, m, p) == Measured(r) /\ method[r] = m /\ path[r] = p

\* C19: once all requests have settled, the observations of each (method,
\* path) number the counter increments over all status codes plus the requests
\* whose call_next raised or was cancelled; before that the counter total is
\* above the histogram count by at most the requests of that (method, path)
\* in flight.
C19_CounterVsHistogram ==
    \A m \in Methods, p \in Paths :
        /\ AllSettled =>
              HistogramCount(m, p) =
                  CounterTotal(m, p)
                  + Cardinality({r \in Reqs : With(r, m, p)
                                              /\ outcome[r].kind = "raise"})
        /\ CounterTotal(m, p) - HistogramCount(m, p)
              <= Cardinality({r \in Reqs : With(r, m, p) /\ InFlight(r)})

\* C19 witness: all requests were GET /work and have settled, one with a
\* response and one with a fault, so the histogram count is above the counter.
C19_Witness ==
    /\ \A r \in Reqs : Settled(r) /\ With(r, "GET", "/work")
    /\ \E r \in Reqs : outcome[r].kind = "raise"
    /\ \E r \in Reqs : outcome[r].kind = "response"
    /\ HistogramCount("GET", "/work") = NReq
    /\ CounterTotal("GET", "/work") < NReq

Changed(metricNow, metricNext, k) ==
    \/ (k \in DOMAIN metricNow) # (k \in DOMAIN metricNext)
    \/ k \in DOMAIN metricNow /\ k \in DOMAIN metricNext
         /\ metricNow[k] # metricNext[k]

\* C20: a step of one request changes no counter series but the one with its
\* own method, path and status, and no histogram series but the one with its
\* own method and path.
C20_SeriesIsolation ==
    [][\A r \in Reqs :
          pc'[r] # pc[r] =>
              /\ \A k \in DOMAIN REQUEST_COUNT \cup DOMAIN REQUEST_COUNT' :
                    Changed(REQUEST_COUNT, REQUEST_COUNT', k) =>
                        /\ outcome[r].kind = "response"
                        /\ k = <<method[r], path[r], ExpectedLabel(outcome[r].val)>>
              /\ \A k \in DOMAIN REQUEST_LATENCY \cup DOMAIN REQUEST_LATENCY' :
                    Changed(REQUEST_LATENCY, REQUEST_LATENCY', k) =>
                        k = <<method[r], path[r]>>]_vars

\* C20 witness: a GET /work and a POST /work request, in flight together,
\* have each written their own series and no other exists.
C20_Witness ==
    /\ \E r \in Reqs : With(r, "GET", "/work") /\ counted[r] = 1 /\ observed[r] = 1
    /\ \E r \in Reqs : With(r, "POST", "/work") /\ counted[r] = 1 /\ pc[r] = "finally"
    /\ DOMAIN REQUEST_COUNT = {<<"GET", "/work", "200">>, <<"POST", "/work", "200">>}
    /\ REQUEST_COUNT[<<"GET", "/work", "200">>] = 1
    /\ REQUEST_COUNT[<<"POST", "/work", "200">>] = 1
    /\ DOMAIN REQUEST_LATENCY = {<<"GET", "/work">>}

\* C13: the start timestamp is not later than the invocation of call_next and
\* the observed duration is at least the time between invoking call_next and
\* its resolution, whatever the other requests did meanwhile.
C13_DurationSpansCall ==
    \A r \in Reqs :
        Measured(r) =>
            /\ start[r] <= invokedAt[r]
            /\ pc[r] # "called" => invokedAt[r] <= resolvedAt[r]
            /\ observed[r] = 1 => elapsed[r] >= resolvedAt[r] - invokedAt[r]

\* C13 witness: a request stayed suspended in call_next while the clock
\* advanced and another request entered, and has observed its duration.
C13_Witness ==
    \E r \in Reqs :
        /\ observed[r] = 1
        /\ resolvedAt[r] > invokedAt[r]
        /\ elapsed[r] >= 1
        /\ \E q \in Reqs : /\ q # r /\ Entered(q)
                           /\ invokedAt[q] > invokedAt[r]
                           /\ invokedAt[q] <= resolvedAt[r]

Observers(k) ==
    {r \in Reqs : Measured(r) /\ observed[r] = 1 /\ <<method[r], path[r]>> = k}

\* C17: in every series of http_request_duration_seconds the bucket counts do
\* not decrease as the boundary grows, each bucket counts the observations at
\* or below its boundary, the +Inf bucket and _count both equal the number of
\* observations, and _sum is the sum of the observed values.
C17_HistogramShape ==
    \A k \in DOMAIN REQUEST_LATENCY :
        LET h == REQUEST_LATENCY[k]
        IN /\ \A b1, b2 \in BucketBounds :
                 b1 <= b2 => h.bucket[b1] <= h.bucket[b2]
           /\ \A b \in BucketBounds :
                 /\ h.bucket[b] <= h.inf
                 /\ h.bucket[b] =
                       Cardinality({r \in Observers(k) : elapsed[r] * TickMs <= b})
           /\ h.inf = h.count
           /\ h.count = Cardinality(Observers(k))
           /\ h.sum = SumOver(elapsed, Observers(k))

\* C17 witness: the GET /db series holds one observation of 0 and one of one
\* clock step, which fall into different buckets.
C17_Witness ==
    /\ <<"GET", ClockPath>> \in DOMAIN REQUEST_LATENCY
    /\ LET h == REQUEST_LATENCY[<<"GET", ClockPath>>]
       IN /\ h.count = 2 /\ h.sum = 1
          /\ h.bucket[5] = 1 /\ h.bucket[25] = 2 /\ h.inf = 2

\* C15: the path label of every series of http_requests_total and
\* http_request_duration_seconds is one of the registered routes, never a raw
\* request path, so the series stay within the bound the routes fix.
C15_RouteTemplateLabels ==
    /\ \A k \in DOMAIN REQUEST_COUNT : k[2] \in RegisteredRoutes
    /\ \A k \in DOMAIN REQUEST_LATENCY : k[2] \in RegisteredRoutes

GaugeSample == [metric |-> "inprogress_requests", labels |-> <<>>]
CurrentSamples == SamplesOf(REQUEST_COUNT, REQUEST_LATENCY)
CurrentValue(s) == SampleValue(s, REQUEST_COUNT, REQUEST_LATENCY, INPROGRESS)
StartValue(s) ==
    IF s \in SamplesOf(atStart.counter, atStart.histogram)
    THEN SampleValue(s, atStart.counter, atStart.histogram, atStart.gauge)
    ELSE 0
\* no metric was updated since the scrape began (every update moves one of
\* these, and none of them ever moves back)
Quiescent ==
    /\ atStart.counter = REQUEST_COUNT
    /\ atStart.histogram = REQUEST_LATENCY
    /\ atStart.incs = gaugeIncs
    /\ atStart.decs = gaugeDecs

\* C16: every value a scrape reports is the value its series held at the
\* moment of the read, between the start and the end of the scrape: for the
\* series that only grow it lies between the value at the start and the
\* current one, a value once read is reported as read, and a finished scrape
\* during which no metric was updated reports every series with its current
\* value.
C16_ScrapeConsistent ==
    /\ [](/\ \A s \in DOMAIN snapshot :
                /\ s \in CurrentSamples
                /\ s # GaugeSample =>
                      StartValue(s) <= snapshot[s] /\ snapshot[s] <= CurrentValue(s)
                /\ s = GaugeSample => snapshot[s] \in 0..NReq
          /\ scrapePc = "done" /\ Quiescent =>
                /\ DOMAIN snapshot = CurrentSamples
                /\ \A s \in CurrentSamples : snapshot[s] = CurrentValue(s))
    /\ [][scrapePc = "reading" =>
             /\ \A s \in DOMAIN snapshot :
                   s \in DOMAIN snapshot' /\ snapshot'[s] = snapshot[s]
             /\ \A s \in DOMAIN snapshot' \ DOMAIN snapshot :
                   s \in CurrentSamples /\ snapshot'[s] = CurrentValue(s)]_vars

\* C16 witness: a scrape has finished that ran beside the requests: one
\* update of the counter series came before its read and one after.
C16_Witness ==
    /\ scrapePc = "done"
    /\ \E s \in DOMAIN snapshot :
          /\ s.metric = "http_requests_total"
          /\ StartValue(s) < snapshot[s]
          /\ snapshot[s] < CurrentValue(s)
    /\ GaugeSample \in DOMAIN snapshot

====
